---- MODULE Spec2Model ----
(***************************************************************************)
(* A model of the LAMMPS regression-test drivers and of the style-list     *)
(* generator:                                                              *)
(*   test/testrunner/test_examples.py   (variant "testrunner")             *)
(*   testing/test_examples.py           (variant "testing")                *)
(*   test/testrunner/lammps_testing.py  (variant "lammps_testing")         *)
(*   tools/gen_styles.py                                                   *)
(* File names, group names and method names are Python strings; they are   *)
(* modelled as sequences of one-character strings so that split, join,     *)
(* title, islower and the 'in.*' pattern are computed as Python does.      *)
(***************************************************************************)
EXTENDS Integers, Sequences, FiniteSets, TLC

VARIABLES
    \* CreateLAMMPSTestCase(testcase_name, script_names)
    c_variant, testcase_name, script_names, methods, c_i, c_pc, assigned, cls,
    \* the module-level discovery loop
    d_variant, seen, modvars, d_pc,
    \* one test class run by the unittest framework
    s_variant, s_methods, s_marked, s_phase, current, child, s_ret, finished, report, s_skipcalls,
    \* one LAMMPSTestCase.run_script call sequence
    r_variant, r_args, r_pc, cwd_files, harness_ops, r_child, r_ret, r_calls,
    \* tools/gen_styles.py
    g_pc, g_idx, json_files, json_before, tmp_files, g_output, g_styles, g_results

varsCreate == <<c_variant, testcase_name, script_names, methods, c_i, c_pc, assigned, cls>>
varsDiscover == <<d_variant, seen, modvars, d_pc>>
varsSuite == <<s_variant, s_methods, s_marked, s_phase, current, child, s_ret, finished, report,
               s_skipcalls>>
varsRun == <<r_variant, r_args, r_pc, cwd_files, harness_ops, r_child, r_ret, r_calls>>
varsGen == <<g_pc, g_idx, json_files, json_before, tmp_files, g_output, g_styles, g_results>>
vars == <<varsCreate, varsDiscover, varsSuite, varsRun, varsGen>>

\* what the actions of one part leave alone
othersCreate == <<varsDiscover, varsSuite, varsRun, varsGen>>
othersDiscover == <<varsCreate, varsSuite, varsRun, varsGen>>
othersSuite == <<varsCreate, varsDiscover, varsRun, varsGen>>
othersRun == <<varsCreate, varsDiscover, varsSuite, varsGen>>
othersGen == <<varsCreate, varsDiscover, varsSuite, varsRun>>

----------------------------------------------------------------------------
\* Bounds of the model.

\* longest script_names list handed to CreateLAMMPSTestCase
MaxScripts == 2

\* Python strings as character sequences.
None == <<"None">>

\* str + str
Cat(a, b) == a \o b

\* script file names the examples directories may hold
ScriptNames ==
    { <<"i","n",".","a">>,
      <<"i","n",".","b">>,
      <<"i","n",".","a",".","b">>,
      <<"i","n",".","a","_","b">>,
      <<"i","n",".","a","b",".","b",".","a">> }

\* group (directory) names handed to CreateLAMMPSTestCase
GroupNames == { <<"a">>, <<"a","b">> }

\* all sequences over S of length at most n
RECURSIVE SeqsUpTo(_, _)
SeqsUpTo(S, n) ==
    IF n = 0 THEN { <<>> }
    ELSE LET shorter == SeqsUpTo(S, n - 1)
         IN  shorter \cup { Append(q, x) : q \in { p \in shorter : Len(p) = n - 1 }, x \in S }

----------------------------------------------------------------------------
\* Python string methods.

\* index of the first occurrence of character c in s, 0 when there is none
RECURSIVE FindFrom(_, _, _)
FindFrom(s, c, i) ==
    IF i > Len(s) THEN 0
    ELSE IF s[i] = c THEN i
    ELSE FindFrom(s, c, i + 1)

\* s.split(sep): k separators give k+1 tokens, empty tokens kept
RECURSIVE Split(_, _)
Split(s, sep) ==
    LET p == FindFrom(s, sep, 1)
    IN  IF p = 0 THEN << s >>
        ELSE << SubSeq(s, 1, p - 1) >> \o Split(SubSeq(s, p + 1, Len(s)), sep)

\* sep.join(tokens)
RECURSIVE Join(_, _)
Join(tokens, sep) ==
    IF tokens = << >> THEN << >>
    ELSE IF Len(tokens) = 1 THEN tokens[1]
    ELSE tokens[1] \o << sep >> \o Join(Tail(tokens), sep)

\* tokens[1:]
SliceFrom1(tokens) == IF tokens = << >> THEN << >> ELSE Tail(tokens)

LowerChars == << "a", "b", "c", "e", "i", "k", "l", "m", "n" >>
UpperChars == << "A", "B", "C", "E", "I", "K", "L", "M", "N" >>

IsLowerChar(c) == \E i \in DOMAIN LowerChars : LowerChars[i] = c
IsUpperChar(c) == \E i \in DOMAIN UpperChars : UpperChars[i] = c
IsCased(c) == IsLowerChar(c) \/ IsUpperChar(c)
ToUpper(c) == IF IsLowerChar(c)
              THEN UpperChars[CHOOSE i \in DOMAIN LowerChars : LowerChars[i] = c]
              ELSE c
ToLower(c) == IF IsUpperChar(c)
              THEN LowerChars[CHOOSE i \in DOMAIN UpperChars : UpperChars[i] = c]
              ELSE c

\* s.islower(): at least one cased character and no uppercase one
IsLower(s) ==
    /\ \E i \in DOMAIN s : IsCased(s[i])
    /\ \A i \in DOMAIN s : ~IsUpperChar(s[i])

\* s.title(): a cased character is uppercased after an uncased one (or at the
\* start) and lowercased after a cased one
Title(s) ==
    [ i \in DOMAIN s |->
        IF i = 1 \/ ~IsCased(s[i - 1]) THEN ToUpper(s[i]) ELSE ToLower(s[i]) ]

\* s.startswith(p)
StartsWith(s, p) == Len(s) >= Len(p) /\ SubSeq(s, 1, Len(p)) = p

\* dict[key] = value
DictSet(d, k, v) == [ x \in DOMAIN d \cup { k } |-> IF x = k THEN v ELSE d[x] ]

----------------------------------------------------------------------------
\* CreateLAMMPSTestCase

Variants == { "testrunner", "testing" }

TestPrefix == << "t","e","s","t","_" >>
SerialSuffix == << "_","s","e","r","i","a","l" >>
ParallelSuffix == << "_","p","a","r","a","l","l","e","l" >>
ParallelOmpSuffix == << "_","p","a","r","a","l","l","e","l","_","o","m","p" >>
SerialValgrindSuffix == << "_","s","e","r","i","a","l","_","v","a","l","g","r","i","n","d" >>
MemcheckExt == << ".","m","e","m","c","h","e","c","k" >>
TestCaseSuffix == << "T","e","s","t","C","a","s","e" >>
SetUpName == << "s","e","t","U","p" >>

\* process count of test_parallel_run, thread count of test_parallel_omp_run
ParallelProcs == 4
OmpThreads == 4

NoLauncher == [ tool |-> "none", xml_file |-> << >> ]

\* valgrind_exec of test_serial_valgrind: the report goes to <name>.memcheck
ValgrindLauncher(name) == [ tool |-> "valgrind", xml_file |-> Cat(name, MemcheckExt) ]

\* the closures: run_script(script_name, ...) followed by assertEqual(rc, 0)
test_serial(script_name) ==
    [ kind |-> "test", script |-> script_name, nprocs |-> 1, nthreads |-> 1,
      launcher |-> NoLauncher, skip |-> FALSE ]

test_parallel(script_name) ==
    [ kind |-> "test", script |-> script_name, nprocs |-> ParallelProcs, nthreads |-> 1,
      launcher |-> NoLauncher, skip |-> FALSE ]

test_parallel_omp(script_name) ==
    [ kind |-> "test", script |-> script_name, nprocs |-> 1, nthreads |-> OmpThreads,
      launcher |-> NoLauncher, skip |-> FALSE ]

test_serial_valgrind(name, script_name) ==
    [ kind |-> "test", script |-> script_name, nprocs |-> 1, nthreads |-> 1,
      launcher |-> ValgrindLauncher(name), skip |-> FALSE ]

setUp(group) ==
    [ kind |-> "setUp", script |-> group, nprocs |-> 0, nthreads |-> 0,
      launcher |-> NoLauncher, skip |-> FALSE ]

\* the slice [1:] forgotten: the leading token is kept
JoinedNameAllTokens(script_name) == Join(Split(script_name, "."), "_")

\* name = '_'.join(script_name.split('.')[1:])
JoinedName(script_name) == Join(SliceFrom1(Split(script_name, ".")), "_")

\* "test_" + name + <mode suffix>
MethodName(name, suffix) == Cat(Cat(TestPrefix, name), suffix)

\* the assignments of one iteration of "for script_name in script_names", in
\* order: <<key, mode, value>>
LoopAssignments(variant, script_name) ==
    LET name == JoinedName(script_name)
        both == << << MethodName(name, SerialSuffix), "serial", test_serial(script_name) >>,
                   << MethodName(name, ParallelSuffix), "parallel", test_parallel(script_name) >> >>
    IN  IF variant = "testing" THEN both
        ELSE both \o
             << << MethodName(name, ParallelOmpSuffix), "threaded", test_parallel_omp(script_name) >>,
                << MethodName(name, SerialValgrindSuffix), "memcheck",
                   test_serial_valgrind(name, script_name) >> >>

RECURSIVE ApplyAssignments(_, _)
ApplyAssignments(d, asg) ==
    IF asg = << >> THEN d
    ELSE ApplyAssignments(DictSet(d, asg[1][1], asg[1][3]), Tail(asg))

\* the whole function: the methods table of the returned class
RECURSIVE FillMethods(_, _, _)
FillMethods(variant, d, scripts) ==
    IF scripts = << >> THEN d
    ELSE FillMethods(variant, ApplyAssignments(d, LoopAssignments(variant, scripts[1])),
                     Tail(scripts))

ClassName(group) == Cat(Title(group), TestCaseSuffix)

CreateLAMMPSTestCase(variant, group, scripts) ==
    [ name |-> ClassName(group), group |-> group,
      methods |-> FillMethods(variant, (SetUpName :> setUp(group)), scripts) ]

CreateInit ==
    /\ c_variant \in Variants
    /\ testcase_name \in GroupNames
    /\ script_names \in SeqsUpTo(ScriptNames, MaxScripts)
    /\ methods = (SetUpName :> setUp(testcase_name))
    /\ c_i = 0
    /\ c_pc = "loop"
    /\ assigned = { }
    /\ cls = None

\* one iteration of the for loop
CreateLoopStep ==
    /\ c_pc = "loop"
    /\ c_i < Len(script_names)
    /\ LET s == script_names[c_i + 1]
           asg == LoopAssignments(c_variant, s)
       IN  /\ methods' = ApplyAssignments(methods, asg)
           /\ assigned' = assigned \cup
                  { [ script |-> s, mode |-> asg[j][2], key |-> asg[j][1] ] : j \in DOMAIN asg }
    /\ c_i' = c_i + 1
    /\ UNCHANGED << c_variant, testcase_name, script_names, c_pc, cls >>
    /\ UNCHANGED othersCreate

\* return type(testcase_name.title() + "TestCase", ..., methods)
CreateReturn ==
    /\ c_pc = "loop"
    /\ c_i = Len(script_names)
    /\ cls' = [ name |-> ClassName(testcase_name), group |-> testcase_name, methods |-> methods ]
    /\ c_pc' = "done"
    /\ UNCHANGED << c_variant, testcase_name, script_names, methods, c_i, assigned >>
    /\ UNCHANGED othersCreate

----------------------------------------------------------------------------
\* The class written out by hand in testing/test_examples.py.

Balance == << "b","a","l","a","n","c","e" >>
InBalance == << "i","n",".","b","a","l","a","n","c","e" >>
InBalanceBondFast == << "i","n",".","b","a","l","a","n","c","e",".","b","o","n","d",".","f","a","s","t" >>
InBalanceBondSlow == << "i","n",".","b","a","l","a","n","c","e",".","b","o","n","d",".","s","l","o","w" >>
BalanceName == << "b","a","l","a","n","c","e" >>
BalanceBondFastName == << "b","a","l","a","n","c","e","_","b","o","n","d","_","f","a","s","t" >>
BalanceBondSlowName == << "b","a","l","a","n","c","e","_","b","o","n","d","_","s","l","o","w" >>

\* a decorator that returns the function as it is
unittest_skip_noop(func) == func

\* unittest.skip(reason)(func): the wrapper raises SkipTest instead of calling func
unittest_skip(func) == [ func EXCEPT !.skip = TRUE ]

\* run_script(script) / run_script(script, nprocs=4) followed by assertEqual(rc, 0)
BalanceTestCase ==
    [ name |-> Cat(Title(Balance), TestCaseSuffix), group |-> Balance,
      methods |->
        (SetUpName :> setUp(Balance))
        @@ (MethodName(BalanceName, SerialSuffix) :> test_serial(InBalance))
        @@ (MethodName(BalanceName, ParallelSuffix) :> test_parallel(InBalance))
        @@ (MethodName(BalanceBondFastName, SerialSuffix) :> test_serial(InBalanceBondFast))
        @@ (MethodName(BalanceBondFastName, ParallelSuffix) :>
                unittest_skip(test_parallel(InBalanceBondFast)))
        @@ (MethodName(BalanceBondSlowName, SerialSuffix) :> test_serial(InBalanceBondSlow))
        @@ (MethodName(BalanceBondSlowName, ParallelSuffix) :> test_parallel(InBalanceBondSlow)) ]

----------------------------------------------------------------------------
\* The module-level discovery loop over os.listdir(examples_dir).

\* entries processed by the loop
MaxEntries == 2
\* nodes inside one example directory
MaxNodes == 2

skip_list_testrunner ==
    { << "a","c","c","e","l","e","r","a","t","e" >>,
      << "h","u","g","o","n","i","o","s","t","a","t" >>,
      << "k","i","m" >>,
      << "n","e","b" >>,
      << "p","y","t","h","o","n" >>,
      << "r","e","a","x" >>,
      << "r","e","r","u","n" >>,
      << "t","a","d" >> }

skip_list_testing ==
    { << "a","c","c","e","l","e","r","a","t","e" >>,
      << "b","a","l","a","n","c","e" >>,
      << "e","l","l","i","p","s","e" >>,
      << "h","u","g","o","n","i","o","s","t","a","t" >>,
      << "k","i","m" >>,
      << "m","s","s","t" >>,
      << "m","e","a","m" >>,
      << "n","b","3","b" >>,
      << "n","e","b" >>,
      << "p","e","p","t","i","d","e" >>,
      << "p","e","r","i" >>,
      << "p","o","u","r" >>,
      << "p","r","d" >>,
      << "p","y","t","h","o","n" >>,
      << "q","e","q" >>,
      << "r","e","a","x" >>,
      << "r","e","r","u","n" >>,
      << "r","i","g","i","d" >>,
      << "s","h","e","a","r" >>,
      << "s","p","u","t","t","e","r" >> }

skip_list(variant) == IF variant = "testing" THEN skip_list_testing ELSE skip_list_testrunner

\* names found directly under the examples directory
RootNames ==
    { << "a","b" >>, << "a","1" >>, << "A","b" >>, << "1","2" >>, << "k","i","m" >>, Balance }

\* nodes below an example directory: path relative to it, and kind
DirNodes ==
    { [ path |-> << << "i","n",".","a" >> >>, kind |-> "file" ],
      [ path |-> << << "i","n",".","a",".","b" >> >>, kind |-> "file" ],
      [ path |-> << << "i","n",".","b" >> >>, kind |-> "dir" ],
      [ path |-> << << "i","n","a" >> >>, kind |-> "file" ],
      [ path |-> << << "l","o","g",".","i","n",".","a" >> >>, kind |-> "file" ],
      [ path |-> << << "i","n",".","b" >>, << "i","n",".","a","_","b" >> >>, kind |-> "file" ] }

\* a directory tree: every node's parent is a directory of the tree
IsTree(nodes) ==
    \A n \in nodes :
        Len(n.path) > 1 =>
            [ path |-> SubSeq(n.path, 1, Len(n.path) - 1), kind |-> "dir" ] \in nodes

DirContents == { c \in SUBSET DirNodes : Cardinality(c) <= MaxNodes /\ IsTree(c) }

InDot == << "i","n","." >>

\* fnmatch(name, 'in.*')
MatchesInStar(name) == StartsWith(name, InDot)

\* glob.glob(os.path.join(path, 'in.*')) mapped through os.path.basename, as a set:
\* the direct children of the directory whose name matches, whatever their kind
GlobInStar(contents) ==
    { n.path[1] : n \in { m \in contents : Len(m.path) = 1 /\ MatchesInStar(m.path[1]) } }

\* the orders in which glob may return a set of names
Orderings(S) ==
    { q \in SeqsUpTo(S, Cardinality(S)) :
        Len(q) = Cardinality(S) /\ \A i, j \in DOMAIN q : i # j => q[i] # q[j] }

DiscoverInit ==
    /\ d_variant \in Variants
    /\ seen = << >>
    /\ modvars = IF d_variant = "testing"
                 THEN (BalanceTestCase.name :> BalanceTestCase)
                 ELSE << >>
    /\ d_pc = "loop"

\* an iteration that hits "if name in skip_list: continue"
DiscoverSkipListed ==
    /\ d_pc = "loop"
    /\ Cardinality(DOMAIN seen) < MaxEntries
    /\ \E name \in RootNames \ DOMAIN seen, kind \in { "file", "dir" }, contents \in DirContents :
        /\ name \in skip_list(d_variant)
        /\ kind = "file" => contents = { }
        /\ seen' = DictSet(seen, name, [ kind |-> kind, contents |-> contents, call |-> None ])
    /\ UNCHANGED << d_variant, modvars, d_pc >>
    /\ UNCHANGED othersDiscover

\* an iteration whose name is not lowercase or is not a directory
DiscoverIgnored ==
    /\ d_pc = "loop"
    /\ Cardinality(DOMAIN seen) < MaxEntries
    /\ \E name \in RootNames \ DOMAIN seen, kind \in { "file", "dir" }, contents \in DirContents :
        /\ name \notin skip_list(d_variant)
        /\ ~(IsLower(name) /\ kind = "dir")
        /\ kind = "file" => contents = { }
        /\ seen' = DictSet(seen, name, [ kind |-> kind, contents |-> contents, call |-> None ])
    /\ UNCHANGED << d_variant, modvars, d_pc >>
    /\ UNCHANGED othersDiscover

\* an iteration that globs the directory and creates its class
DiscoverCreate ==
    /\ d_pc = "loop"
    /\ Cardinality(DOMAIN seen) < MaxEntries
    /\ \E name \in RootNames \ DOMAIN seen, contents \in DirContents :
        /\ name \notin skip_list(d_variant)
        /\ IsLower(name)
        /\ \E scripts \in Orderings(GlobInStar(contents)) :
            /\ seen' = DictSet(seen, name,
                               [ kind |-> "dir", contents |-> contents, call |-> scripts ])
            /\ modvars' = DictSet(modvars, ClassName(name),
                                  CreateLAMMPSTestCase(d_variant, name, scripts))
    /\ UNCHANGED << d_variant, d_pc >>
    /\ UNCHANGED othersDiscover

\* os.listdir is exhausted
DiscoverEnd ==
    /\ d_pc = "loop"
    /\ d_pc' = "done"
    /\ UNCHANGED << d_variant, seen, modvars >>
    /\ UNCHANGED othersDiscover

----------------------------------------------------------------------------
\* One test class run by the unittest framework: SkipTest calls at import
\* time, then every test method once, in an order the framework chooses.

\* SkipTest calls made on the class before it is run
MaxSkipCalls == 1

\* exit codes of the child: success, LAMMPS error, killed by a signal
\* (subprocess.call returns the negated signal number)
ExitCodes == { 0, 1, 255, -11 }

\* the classes the framework may be handed
SuiteClasses ==
    { [ variant |-> "testrunner",
        class |-> CreateLAMMPSTestCase("testrunner", << "a" >>, << << "i","n",".","a" >> >>) ],
      [ variant |-> "testing",
        class |-> CreateLAMMPSTestCase("testing", << "a","b" >>,
                      << << "i","n",".","a",".","b" >>, << "i","n",".","b" >> >>) ],
      [ variant |-> "testing", class |-> BalanceTestCase ] }

\* a name no class defines
MissingName == MethodName(<< "c" >>, ParallelOmpSuffix)

TestNames(m) == { k \in DOMAIN m : m[k].kind = "test" }

\* the methods the class statement declares with @unittest.skip
Decorated(c) ==
    IF c = BalanceTestCase THEN { MethodName(BalanceBondFastName, ParallelSuffix) } ELSE { }

\* setattr(cls, func_name, unittest.skip(reason)(getattr(cls, func_name)))
SkipTestApply(m, func_name) == [ m EXCEPT ![func_name] = unittest_skip(m[func_name]) ]

\* the framework skips a method whose wrapper carries the skip mark, without
\* calling its body
IsSkipped(method) == method.skip

\* a wait that gives up on a child that is still running
CallReturnedOrTimedOut(state) == state \in { "exited", "running", "hung" }

\* subprocess.call returns only once the child has exited
CallReturned(state) == state = "exited"

\* only positive exit codes fail: a child killed by a signal passes
assertGreater_rc_0(rc) == IF rc > 0 THEN "fail" ELSE "pass"

\* self.assertEqual(rc, 0)
assertEqual_rc_0(rc) == IF rc = 0 THEN "pass" ELSE "fail"

NoReport == [ unit |-> None, outcome |-> "none", rc |-> 0 ]

SuiteInit ==
    /\ \E sc \in SuiteClasses :
        /\ s_variant = sc.variant
        /\ s_methods = sc.class.methods
        /\ s_marked = Decorated(sc.class)
        /\ child = [ k \in TestNames(sc.class.methods) |-> "none" ]
    /\ s_phase = "loaded"
    /\ current = None
    /\ s_ret = 0
    /\ finished = { }
    /\ report = NoReport
    /\ s_skipcalls = 0

\* SkipTest(cls, func_name, reason) of test/testrunner/test_examples.py
SkipTest ==
    /\ s_phase = "loaded"
    /\ s_variant = "testrunner"
    /\ s_skipcalls < MaxSkipCalls
    /\ \E func_name \in TestNames(s_methods) :
        /\ s_methods' = SkipTestApply(s_methods, func_name)
        /\ s_marked' = s_marked \cup { func_name }
    /\ s_skipcalls' = s_skipcalls + 1
    /\ UNCHANGED << s_variant, s_phase, current, child, s_ret, finished, report >>
    /\ UNCHANGED othersSuite

\* SkipTest on a name the class does not have: getattr raises AttributeError
\* and the module is not imported
SkipTestMissing ==
    /\ s_phase = "loaded"
    /\ s_variant = "testrunner"
    /\ s_skipcalls < MaxSkipCalls
    /\ MissingName \notin DOMAIN s_methods
    /\ s_phase' = "import_error"
    /\ s_skipcalls' = s_skipcalls + 1
    /\ UNCHANGED << s_variant, s_methods, s_marked, current, child, s_ret, finished, report >>
    /\ UNCHANGED othersSuite

\* SkipTest of lammps_testing.py: the module never imports unittest, so the
\* call raises NameError before the class is touched
SkipTestLammpsTesting ==
    /\ s_phase = "loaded"
    /\ s_skipcalls < MaxSkipCalls
    /\ s_phase' = "import_error"
    /\ s_skipcalls' = s_skipcalls + 1
    /\ UNCHANGED << s_variant, s_methods, s_marked, current, child, s_ret, finished, report >>
    /\ UNCHANGED othersSuite

\* unittest.main(): the import is over, the framework starts running units
SuiteStart ==
    /\ s_phase = "loaded"
    /\ s_phase' = "running"
    /\ UNCHANGED << s_variant, s_methods, s_marked, current, child, s_ret, finished, report,
                    s_skipcalls >>
    /\ UNCHANGED othersSuite

\* the framework reaches a skip-marked unit: reported as skipped, body not called
UnitSkipped ==
    /\ s_phase = "running"
    /\ current = None
    /\ \E u \in TestNames(s_methods) \ finished :
        /\ IsSkipped(s_methods[u])
        /\ finished' = finished \cup { u }
        /\ report' = [ unit |-> u, outcome |-> "skipped", rc |-> 0 ]
    /\ UNCHANGED << s_variant, s_methods, s_marked, s_phase, current, child, s_ret, s_skipcalls >>
    /\ UNCHANGED othersSuite

\* the framework calls a unit: setUp, then run_script spawns the child and
\* waits in subprocess.call; the environment decides whether the child will
\* ever exit
UnitStart ==
    /\ s_phase = "running"
    /\ current = None
    /\ \E u \in TestNames(s_methods) \ finished, st \in { "running", "hung" } :
        /\ ~IsSkipped(s_methods[u])
        /\ current' = u
        /\ child' = [ child EXCEPT ![u] = st ]
    /\ UNCHANGED << s_variant, s_methods, s_marked, s_phase, s_ret, finished, report, s_skipcalls >>
    /\ UNCHANGED othersSuite

\* the child process exits with some exit code
ChildExit ==
    /\ s_phase = "running"
    /\ current # None
    /\ child[current] = "running"
    /\ \E rc \in ExitCodes :
        /\ child' = [ child EXCEPT ![current] = "exited" ]
        /\ s_ret' = rc
    /\ UNCHANGED << s_variant, s_methods, s_marked, s_phase, current, finished, report, s_skipcalls >>
    /\ UNCHANGED othersSuite

\* call returns rc, run_script returns it, assertEqual(rc, 0) decides
UnitVerdict ==
    /\ s_phase = "running"
    /\ current # None
    /\ CallReturned(child[current])
    /\ finished' = finished \cup { current }
    /\ report' = [ unit |-> current, outcome |-> assertEqual_rc_0(s_ret), rc |-> s_ret ]
    /\ current' = None
    /\ UNCHANGED << s_variant, s_methods, s_marked, s_phase, child, s_ret, s_skipcalls >>
    /\ UNCHANGED othersSuite

\* every unit has been reported: the run is complete
SuiteDone ==
    /\ s_phase = "running"
    /\ current = None
    /\ finished = TestNames(s_methods)
    /\ s_phase' = "done"
    /\ UNCHANGED << s_variant, s_methods, s_marked, current, child, s_ret, finished, report,
                    s_skipcalls >>
    /\ UNCHANGED othersSuite

----------------------------------------------------------------------------
\* LAMMPSTestCase.run_script, in its three versions, called by units that
\* share one working directory (self.cwd).

\* largest process count and thread count requested besides the units' own 4
MaxProcs == 2
MaxThreads == 2
\* run_script calls made in the same working directory
MaxCalls == 2

RunVariants == { "testrunner", "testing", "lammps_testing" }

LAMMPS_BINARY == "lmp"

\* str(n)
IntToStr(n) == << "0", "1", "2", "3", "4", "5", "6", "7", "8", "9" >>[n + 1]

\* a launcher as test_serial_valgrind builds it
ValgrindExec ==
    << "valgrind", "--leak-check=full", "--xml=yes", "--xml-file=a.memcheck",
       "--suppressions=lammps.supp",
       "--suppressions=/usr/share/openmpi/openmpi-valgrind.supp" >>

\* the arguments a caller may pass; a version without a parameter gets the
\* value its code fixes
RunArgs(variant) ==
    { a \in [ script_name : { "in.a" },
              nprocs : (1 .. MaxProcs) \cup { ParallelProcs },
              nthreads : (1 .. MaxThreads) \cup { OmpThreads },
              screen : BOOLEAN,
              log : { "", "log.a" },
              launcher : { << >>, ValgrindExec },
              force_openmp : BOOLEAN,
              force_mpi : BOOLEAN ] :
        /\ variant = "testing" => a.nthreads = 1 /\ a.launcher = << >>
        /\ variant # "lammps_testing" => a.log = "" /\ ~a.force_openmp /\ ~a.force_mpi }

output_options(a) == IF a.screen THEN << >> ELSE << "-screen", "none" >>

\* testing/test_examples.py
CommandTesting(a) ==
    IF a.nprocs > 1
    THEN << "mpirun", "-np", IntToStr(a.nprocs), LAMMPS_BINARY, "-in", a.script_name >>
         \o output_options(a)
    ELSE << LAMMPS_BINARY, "-in", a.script_name >> \o output_options(a)

\* test/testrunner/test_examples.py
CommandTestrunner(a) ==
    LET exe == a.launcher \o << LAMMPS_BINARY >>
    IN  IF a.nprocs > 1
        THEN << "mpirun", "-np", IntToStr(a.nprocs) >> \o exe
             \o << "-in", a.script_name >> \o output_options(a)
        ELSE IF a.nthreads > 1
        THEN << "mpirun", "-np", IntToStr(a.nprocs) >> \o exe
             \o << "-sf", "omp", "-pk", "omp", IntToStr(a.nthreads), "-in", a.script_name >>
             \o output_options(a)
        ELSE exe \o << "-in", a.script_name >> \o output_options(a)

\* test/testrunner/lammps_testing.py
CommandLammpsTesting(a) ==
    LET oo == output_options(a) \o (IF a.log # "" THEN << "-log", a.log >> ELSE << >>)
        exe == a.launcher \o << LAMMPS_BINARY >>
        omp == a.nthreads > 1 \/ a.force_openmp
        mpi == a.nprocs > 1 \/ a.force_mpi
        lammps_options1 == << "-in", a.script_name >> \o oo
                           \o (IF omp THEN << "-sf", "omp" >> ELSE << >>)
        mpi_options == IF mpi
                       THEN << "mpirun", "-np", IntToStr(a.nprocs), "-x",
                               "OMP_NUM_THREADS=" \o IntToStr(a.nthreads) >>
                       ELSE << >>
        lammps_options == IF ~mpi /\ omp
                          THEN lammps_options1 \o << "-pk", "omp", IntToStr(a.nthreads) >>
                          ELSE lammps_options1
    IN  mpi_options \o exe \o lammps_options

Command(variant, a) ==
    CASE variant = "testing" -> CommandTesting(a)
      [] variant = "testrunner" -> CommandTestrunner(a)
      [] OTHER -> CommandLammpsTesting(a)

\* every version captures the streams in files
LogFilesEveryVariant(variant) == { "stdout.log", "stderr.log" }

\* the files run_script itself opens with mode "w+" in self.cwd
LogFiles(variant) ==
    IF variant = "lammps_testing" THEN { "stdout.log", "stderr.log" } ELSE { }

\* files that may exist in the working directory
CwdNames == { "in.a", "stdout.log", "stderr.log", "log.lammps" }

Absent == << "absent" >>

NoChild == [ cmd |-> << >>, state |-> "none", stdout |-> "" ]

RunInit ==
    /\ r_variant \in RunVariants
    /\ r_args \in RunArgs(r_variant)
    /\ r_pc = "start"
    /\ cwd_files \in { f \in [ CwdNames -> { Absent, << "old" >> } ] :
                          /\ f["in.a"] # Absent
                          /\ f["stderr.log"] = f["stdout.log"]
                          /\ f["log.lammps"] = Absent }
    /\ harness_ops = { }
    /\ r_child = NoChild
    /\ r_ret = 0
    /\ r_calls = 0

\* with open(outfile_path, "w+") as outfile, open(errfile_path, "w+") as errfile
RunOpenLogs ==
    /\ r_pc = "start"
    /\ LogFiles(r_variant) # { }
    /\ harness_ops' = harness_ops \cup
          { [ op |-> IF cwd_files[f] = Absent THEN "create" ELSE "truncate", file |-> f ] :
                f \in LogFiles(r_variant) }
    /\ cwd_files' = [ f \in CwdNames |-> IF f \in LogFiles(r_variant) THEN << >> ELSE cwd_files[f] ]
    /\ r_pc' = "opened"
    /\ UNCHANGED << r_variant, r_args, r_child, r_ret, r_calls >>
    /\ UNCHANGED othersRun

\* call(command, cwd=self.cwd[, stdout=outfile, stderr=errfile])
RunCall ==
    /\ \/ r_pc = "start" /\ LogFiles(r_variant) = { }
       \/ r_pc = "opened"
    /\ r_child' = [ cmd |-> Command(r_variant, r_args), state |-> "running",
                    stdout |-> IF "stdout.log" \in LogFiles(r_variant) THEN "stdout.log" ELSE "" ]
    /\ r_pc' = "called"
    /\ UNCHANGED << r_variant, r_args, cwd_files, harness_ops, r_ret, r_calls >>
    /\ UNCHANGED othersRun

\* the child prints: into the file it was handed, or to the inherited stream
RunChildPrints ==
    /\ r_pc = "called"
    /\ r_child.state = "running"
    /\ r_child.stdout # ""
    /\ cwd_files[r_child.stdout] = << >>
    /\ cwd_files' = [ cwd_files EXCEPT ![r_child.stdout] = << "out" >> ]
    /\ UNCHANGED << r_variant, r_args, r_pc, harness_ops, r_child, r_ret, r_calls >>
    /\ UNCHANGED othersRun

\* the child writes its own log file into its working directory
RunChildWritesLog ==
    /\ r_pc = "called"
    /\ r_child.state = "running"
    /\ cwd_files["log.lammps"] # << "log" >>
    /\ cwd_files' = [ cwd_files EXCEPT !["log.lammps"] = << "log" >> ]
    /\ UNCHANGED << r_variant, r_args, r_pc, harness_ops, r_child, r_ret, r_calls >>
    /\ UNCHANGED othersRun

RunChildExit ==
    /\ r_pc = "called"
    /\ r_child.state = "running"
    /\ \E rc \in ExitCodes :
        /\ r_child' = [ r_child EXCEPT !.state = "exited" ]
        /\ r_ret' = rc
    /\ UNCHANGED << r_variant, r_args, r_pc, cwd_files, harness_ops, r_calls >>
    /\ UNCHANGED othersRun

\* call has returned: read the captured text back (lammps_testing), return retcode
RunReturn ==
    /\ r_pc = "called"
    /\ r_child.state = "exited"
    /\ harness_ops' = harness_ops \cup { [ op |-> "read", file |-> f ] : f \in LogFiles(r_variant) }
    /\ r_pc' = "returned"
    /\ r_calls' = r_calls + 1
    /\ UNCHANGED << r_variant, r_args, cwd_files, r_child, r_ret >>
    /\ UNCHANGED othersRun

\* another unit of the same class calls run_script in the same directory
RunNextCall ==
    /\ r_pc = "returned"
    /\ r_calls < MaxCalls
    /\ r_args' \in RunArgs(r_variant)
    /\ r_pc' = "start"
    /\ r_child' = NoChild
    /\ UNCHANGED << r_variant, cwd_files, harness_ops, r_ret, r_calls >>
    /\ UNCHANGED othersRun

----------------------------------------------------------------------------
\* tools/gen_styles.py

StyleOrder == << "pair", "fix", "dump", "compute" >>

\* code points of the characters used
Ord(c) ==
    CASE c = " " -> 32
      [] c = "\"" -> 34
      [] c = "#" -> 35
      [] c = "1" -> 49
      [] c = "a" -> 97
      [] c = "b" -> 98
      [] OTHER -> 0

\* Python's str comparison a <= b
RECURSIVE StrLeq(_, _)
StrLeq(a, b) ==
    IF a = << >> THEN TRUE
    ELSE IF b = << >> THEN FALSE
    ELSE IF Ord(a[1]) < Ord(b[1]) THEN TRUE
    ELSE IF Ord(a[1]) > Ord(b[1]) THEN FALSE
    ELSE StrLeq(Tail(a), Tail(b))

\* line.strip('"')
RECURSIVE StripQuotes(_)
StripQuotes(s) ==
    IF s = << >> THEN s
    ELSE IF s[1] = "\"" THEN StripQuotes(Tail(s))
    ELSE IF s[Len(s)] = "\"" THEN StripQuotes(SubSeq(s, 1, Len(s) - 1))
    ELSE s

RECURSIVE InsertSorted(_, _)
InsertSorted(x, l) ==
    IF l = << >> THEN << x >>
    ELSE IF StrLeq(x, l[1]) THEN << x >> \o l
    ELSE << l[1] >> \o InsertSorted(x, Tail(l))

\* sorted(styles)
RECURSIVE Sorted(_)
Sorted(l) == IF l = << >> THEN << >> ELSE InsertSorted(l[1], Sorted(Tail(l)))

\* the loop over output.splitlines()
RECURSIVE ParseStyles(_)
ParseStyles(lines) ==
    IF lines = << >> THEN << >>
    ELSE IF lines[1] = << >> \/ StartsWith(lines[1], << "#" >>) THEN ParseStyles(Tail(lines))
    ELSE << StripQuotes(lines[1]) >> \o ParseStyles(Tail(lines))

FileAbsent == [ state |-> "absent", data |-> << >> ]
FileEmpty == [ state |-> "empty", data |-> << >> ]
FileOld == [ state |-> "json", data |-> << << "o", "l", "d" >> >> ]
JsonFile(list) == [ state |-> "json", data |-> list ]

StyleSet == { StyleOrder[i] : i \in DOMAIN StyleOrder }

\* what the preprocessor may print for one style
GppOutputs ==
    { << >>,
      << << "\"", "a", "\"" >> >>,
      << << "#", " ", "1" >>, << "\"", "b", "\"" >>, << >>, << "\"", "a", "\"" >> >> }

GenInit ==
    /\ g_pc = "open"
    /\ g_idx = 1
    /\ json_before \in [ StyleSet -> { FileAbsent, FileOld } ]
    /\ json_files = json_before
    /\ tmp_files = { }
    /\ g_output = << >>
    /\ g_styles = << >>
    /\ g_results = << >>

\* with open('<style>_styles.json', 'w') as f: the file is created or truncated
\* before get_styles is evaluated
GenOpen ==
    /\ g_pc = "open"
    /\ g_idx <= Len(StyleOrder)
    /\ json_files' = [ json_files EXCEPT ![StyleOrder[g_idx]] = FileEmpty ]
    /\ g_pc' = "get_styles"
    /\ UNCHANGED << g_idx, json_before, tmp_files, g_output, g_styles, g_results >>
    /\ UNCHANGED othersGen

\* tempfile.NamedTemporaryFile(delete=False), write, close
GenTempFile ==
    /\ g_pc = "get_styles"
    /\ tmp_files' = tmp_files \cup { StyleOrder[g_idx] }
    /\ g_pc' = "preprocess"
    /\ UNCHANGED << g_idx, json_before, json_files, g_output, g_styles, g_results >>
    /\ UNCHANGED othersGen

\* subprocess.check_output succeeds
GenPreprocessOk ==
    /\ g_pc = "preprocess"
    /\ g_output' \in GppOutputs
    /\ g_results' = DictSet(g_results, StyleOrder[g_idx], g_output')
    /\ g_pc' = "parse"
    /\ UNCHANGED << g_idx, json_before, json_files, tmp_files, g_styles >>
    /\ UNCHANGED othersGen

\* g++ exits non-zero: check_output raises CalledProcessError, nothing catches
\* it, the with block closes the file and the script ends
GenPreprocessFails ==
    /\ g_pc = "preprocess"
    /\ g_pc' = "aborted"
    /\ UNCHANGED << g_idx, json_before, json_files, tmp_files, g_output, g_styles, g_results >>
    /\ UNCHANGED othersGen

\* the parse loop, os.unlink(f.name), return sorted(styles)
GenParse ==
    /\ g_pc = "parse"
    /\ g_styles' = Sorted(ParseStyles(g_output))
    /\ tmp_files' = tmp_files \ { StyleOrder[g_idx] }
    /\ g_pc' = "dump"
    /\ UNCHANGED << g_idx, json_before, json_files, g_output, g_results >>
    /\ UNCHANGED othersGen

\* json.dump(styles, f) and the end of the with block
GenDump ==
    /\ g_pc = "dump"
    /\ json_files' = [ json_files EXCEPT ![StyleOrder[g_idx]] = JsonFile(g_styles) ]
    /\ g_idx' = g_idx + 1
    /\ g_pc' = IF g_idx = Len(StyleOrder) THEN "done" ELSE "open"
    /\ g_output' = << >>
    /\ g_styles' = << >>
    /\ UNCHANGED << json_before, tmp_files, g_results >>
    /\ UNCHANGED othersGen

----------------------------------------------------------------------------
\* Specifications: one per program part; the variables of the other parts
\* keep their initial values.

CreateIdle ==
    /\ c_variant = "testrunner" /\ testcase_name = << >> /\ script_names = << >>
    /\ methods = << >> /\ c_i = 0 /\ c_pc = "idle" /\ assigned = { } /\ cls = None

DiscoverIdle ==
    /\ d_variant = "testrunner" /\ seen = << >> /\ modvars = << >> /\ d_pc = "idle"

SuiteIdle ==
    /\ s_variant = "testrunner" /\ s_methods = << >> /\ s_marked = { } /\ s_phase = "idle"
    /\ current = None /\ child = << >> /\ s_ret = 0 /\ finished = { } /\ report = NoReport
    /\ s_skipcalls = 0

RunIdle ==
    /\ r_variant = "testrunner" /\ r_args = << >> /\ r_pc = "idle" /\ cwd_files = << >>
    /\ harness_ops = { } /\ r_child = NoChild /\ r_ret = 0 /\ r_calls = 0

GenIdle ==
    /\ g_pc = "idle" /\ g_idx = 1 /\ json_files = << >> /\ json_before = << >>
    /\ tmp_files = { } /\ g_output = << >> /\ g_styles = << >> /\ g_results = << >>

\* CreateLAMMPSTestCase
InitCreate == CreateInit /\ DiscoverIdle /\ SuiteIdle /\ RunIdle /\ GenIdle
NextCreate ==
    \/ CreateLoopStep
    \/ CreateReturn
SpecCreate == InitCreate /\ [][NextCreate]_vars

\* the discovery loop
InitDiscover == CreateIdle /\ DiscoverInit /\ SuiteIdle /\ RunIdle /\ GenIdle
NextDiscover ==
    \/ DiscoverSkipListed
    \/ DiscoverIgnored
    \/ DiscoverCreate
    \/ DiscoverEnd
SpecDiscover == InitDiscover /\ [][NextDiscover]_vars

\* a test class under the framework
Init == CreateIdle /\ DiscoverIdle /\ SuiteInit /\ RunIdle /\ GenIdle
Next ==
    \/ SkipTest
    \/ SkipTestMissing
    \/ SkipTestLammpsTesting
    \/ SuiteStart
    \/ UnitSkipped
    \/ UnitStart
    \/ ChildExit
    \/ UnitVerdict
    \/ SuiteDone
Spec == Init /\ [][Next]_vars

\* run_script
InitRun == CreateIdle /\ DiscoverIdle /\ SuiteIdle /\ RunInit /\ GenIdle
NextRun ==
    \/ RunOpenLogs
    \/ RunCall
    \/ RunChildPrints
    \/ RunChildWritesLog
    \/ RunChildExit
    \/ RunReturn
    \/ RunNextCall
SpecRun == InitRun /\ [][NextRun]_vars

\* gen_styles.py
InitGen == CreateIdle /\ DiscoverIdle /\ SuiteIdle /\ RunIdle /\ GenInit
NextGen ==
    \/ GenOpen
    \/ GenTempFile
    \/ GenPreprocessOk
    \/ GenPreprocessFails
    \/ GenParse
    \/ GenDump
SpecGen == InitGen /\ [][NextGen]_vars

----------------------------------------------------------------------------
\* Properties of CreateLAMMPSTestCase (SpecCreate).

Modes == { "serial", "parallel", "threaded", "memcheck" }

\* what it is for a test method to run script s in mode m
RunsInMode(method, s, m) ==
    /\ method.kind = "test"
    /\ method.script = s
    /\ CASE m = "serial" ->
              method.nprocs = 1 /\ method.nthreads = 1 /\ method.launcher.tool = "none"
         [] m = "parallel" ->
              method.nprocs = ParallelProcs /\ method.launcher.tool = "none"
         [] m = "threaded" ->
              method.nthreads = OmpThreads /\ method.launcher.tool = "none"
         [] OTHER ->
              method.launcher.tool = "valgrind"

\* C2: the class returned by CreateLAMMPSTestCase of test/testrunner/test_examples.py
\* holds, for each script of the list and each of the four execution modes, a
\* unit that runs exactly that script in that mode.
C2_EveryPairHasItsUnit ==
    (c_pc = "done" /\ c_variant = "testrunner") =>
        \A i \in DOMAIN script_names, m \in Modes :
            \E k \in TestNames(cls.methods) : RunsInMode(cls.methods[k], script_names[i], m)

\* C3: two different (script, mode) pairs never receive the same unit name.
C3_UnitNamesUnique ==
    \A a, b \in assigned :
        (a.script # b.script \/ a.mode # b.mode) => a.key # b.key

\* the script name after its first dot, every later dot replaced by '_'
C4_SuffixTokensJoined(s) ==
    LET p == CHOOSE i \in DOMAIN s : s[i] = "." /\ \A j \in 1 .. (i - 1) : s[j] # "."
        rest == SubSeq(s, p + 1, Len(s))
    IN  [ i \in DOMAIN rest |-> IF rest[i] = "." THEN "_" ELSE rest[i] ]

C4_ModeSuffix(m) ==
    CASE m = "serial" -> SerialSuffix
      [] m = "parallel" -> ParallelSuffix
      [] m = "threaded" -> ParallelOmpSuffix
      [] OTHER -> SerialValgrindSuffix

\* C4 as stated: the unit name is the group name, then the joined suffix
\* tokens, then the mode suffix (with or without the "test_" prefix and a
\* '_' after the group name).
C4_NameIsGroupTokensMode ==
    \A a \in assigned :
        LET tokens == C4_SuffixTokensJoined(a.script)
            suffix == C4_ModeSuffix(a.mode)
        IN  a.key \in { testcase_name \o tokens \o suffix,
                        TestPrefix \o testcase_name \o tokens \o suffix,
                        TestPrefix \o testcase_name \o << "_" >> \o tokens \o suffix }

\* C4 (amended): the unit name is "test_", then the suffix tokens after the
\* leading 'in' joined with '_', then the mode suffix; the group name is not
\* part of it. The unit exists under that name.
C4_NameIsTestTokensMode ==
    \A a \in assigned :
        /\ a.key = TestPrefix \o C4_SuffixTokensJoined(a.script) \o C4_ModeSuffix(a.mode)
        /\ a.key \in DOMAIN methods

C4_Witness ==
    /\ c_pc = "done"
    /\ testcase_name = << "a" >>
    /\ \E a \in assigned :
        /\ a.script = << "i","n",".","a","b",".","b",".","a" >>
        /\ a.mode = "memcheck"
        /\ a.key \in DOMAIN cls.methods

----------------------------------------------------------------------------
\* Properties of the discovery loop (SpecDiscover).

\* the files directly inside a directory whose name begins with "in."
C5_ScriptFiles(contents) ==
    { n.path[1] : n \in { m \in contents :
                            /\ Len(m.path) = 1
                            /\ m.kind = "file"
                            /\ Len(m.path[1]) >= 3
                            /\ m.path[1][1] = "i" /\ m.path[1][2] = "n" /\ m.path[1][3] = "." } }

\* C5: the loop creates a class for an entry exactly when the entry is a
\* directory, its name is all-lowercase (str.islower) and not in the skip
\* list; the scripts handed to the class are exactly the files directly inside
\* the directory whose name matches 'in.*'.
C5_DiscoveryExact ==
    \A name \in DOMAIN seen :
        LET e == seen[name]
        IN  /\ (e.call # None) <=>
                   (e.kind = "dir" /\ IsLower(name) /\ name \notin skip_list(d_variant))
            /\ e.call # None =>
                   /\ ClassName(name) \in DOMAIN modvars
                   /\ modvars[ClassName(name)].group = name
                   /\ { e.call[i] : i \in DOMAIN e.call } = C5_ScriptFiles(e.contents)

\* the entries of either kind directly inside a directory whose name begins
\* with "in."
C5_ScriptEntries(contents) ==
    { n.path[1] : n \in { m \in contents :
                            /\ Len(m.path) = 1
                            /\ Len(m.path[1]) >= 3
                            /\ m.path[1][1] = "i" /\ m.path[1][2] = "n" /\ m.path[1][3] = "." } }

\* C5, the part the loop does satisfy: the class is created exactly for the
\* lowercase, not skip-listed directories, and it is handed every entry directly
\* inside whose name matches 'in.*', files and directories alike.
C5_DiscoveryExactOnEntries ==
    \A name \in DOMAIN seen :
        LET e == seen[name]
        IN  /\ (e.call # None) <=>
                   (e.kind = "dir" /\ IsLower(name) /\ name \notin skip_list(d_variant))
            /\ e.call # None =>
                   /\ ClassName(name) \in DOMAIN modvars
                   /\ modvars[ClassName(name)].group = name
                   /\ { e.call[i] : i \in DOMAIN e.call } = C5_ScriptEntries(e.contents)

----------------------------------------------------------------------------
\* Properties of a class run by the framework (Spec).

\* C1: a unit reports failure if and only if the exit code of its child is
\* non-zero; exit code 0 is the only outcome reported as a pass.
C1_FailIffNonZero ==
    report.outcome \in { "pass", "fail" } =>
        /\ report.rc \in ExitCodes
        /\ (report.outcome = "fail") <=> (report.rc # 0)
        /\ (report.outcome = "pass") <=> (report.rc = 0)

C1_Witness ==
    /\ report.outcome = "fail"
    /\ report.rc = -11
    /\ report.unit # None
    /\ s_methods[report.unit].launcher.tool = "valgrind"
    /\ \E u \in finished : u # report.unit

LiveChildren == { u \in DOMAIN child : child[u] \in { "running", "hung" } }

C7_StateInv ==
    /\ \A u \in LiveChildren : u = current
    /\ current # None => current \notin finished
    /\ \A u \in finished : child[u] = "exited" \/ (child[u] = "none" /\ IsSkipped(s_methods[u]))
    /\ s_phase = "done" => LiveChildren = { }

C7_StepInv ==
    \* no timeout and no cancellation: nothing happens while a child hangs
    /\ \A u \in DOMAIN child : child[u] # "hung"
    \* a unit starts only when no child is alive
    /\ (current' # current /\ current' # None) => LiveChildren = { }
    \* a verdict is reported only for a child that has exited
    /\ \A u \in finished' \ finished : IsSkipped(s_methods[u]) \/ child[u] = "exited"

\* C7: a unit's verdict is produced only after its child has exited, the next
\* unit does not start before that, and with a child that never exits no
\* verdict is reached and the run never completes.
C7_BlocksUntilChildExits == [] C7_StateInv /\ [][C7_StepInv]_vars

C7_Witness ==
    /\ \E u \in DOMAIN child : child[u] = "hung"
    /\ \E u \in finished : child[u] = "exited"
    /\ s_phase = "running"

----------------------------------------------------------------------------
\* Properties of run_script (SpecRun).

HarnessWrites ==
    { o.file : o \in { x \in harness_ops : x.op \in { "create", "truncate", "write" } } }

\* C8 as stated: run_script creates, truncates or writes no file in self.cwd.
C8_CwdReadOnly == HarnessWrites = { }

\* C8 (amended): run_script of the two test_examples.py drivers writes no file
\* in self.cwd; run_script of lammps_testing.py creates or truncates exactly
\* stdout.log and stderr.log there on every call, so the units of a directory
\* share these two files and nothing else written by the harness.
C8_OnlyCaptureFiles ==
    /\ r_variant \in { "testrunner", "testing" } => HarnessWrites = { }
    /\ r_variant = "lammps_testing" =>
          /\ HarnessWrites \subseteq { "stdout.log", "stderr.log" }
          /\ (r_pc # "start" \/ r_calls > 0) => HarnessWrites = { "stdout.log", "stderr.log" }
          /\ r_pc = "opened" => cwd_files["stdout.log"] = << >> /\ cwd_files["stderr.log"] = << >>
    /\ r_pc # "idle" => cwd_files["in.a"] = << "old" >>

C8_Witness ==
    /\ r_variant = "lammps_testing"
    /\ r_calls = 1
    /\ r_pc = "opened"
    /\ [ op |-> "create", file |-> "stdout.log" ] \in harness_ops
    /\ [ op |-> "truncate", file |-> "stdout.log" ] \in harness_ops
    /\ cwd_files["log.lammps"] = << "log" >>

\* s occurs in q as a contiguous run
ContainsRun(q, s) ==
    \E i \in 0 .. (Len(q) - Len(s)) : SubSeq(q, i + 1, i + Len(s)) = s

\* C9: the command of run_script (test/testrunner/test_examples.py) carries
\* '-sf omp -pk omp <nthreads>' exactly when nthreads > 1 and starts with
\* 'mpirun -np <nprocs>' exactly when nprocs > 1.
C9_FlagsFollowRequest ==
    (r_variant = "testrunner" /\ r_child.state # "none") =>
        /\ ContainsRun(r_child.cmd, << "-sf", "omp", "-pk", "omp", IntToStr(r_args.nthreads) >>)
               <=> (r_args.nthreads > 1)
        /\ StartsWith(r_child.cmd, << "mpirun", "-np", IntToStr(r_args.nprocs) >>)
               <=> (r_args.nprocs > 1)

----------------------------------------------------------------------------
\* Properties of gen_styles.py (SpecGen).

\* C10: when the script has ended, normally or on a failing preprocessor call,
\* each output file is as it was before the run or holds the complete sorted
\* list of its style's names, and no temporary source file is left.
C10_OutputsIntactOrComplete ==
    g_pc \in { "done", "aborted" } =>
        /\ \A s \in StyleSet :
              \/ json_files[s] = json_before[s]
              \/ /\ s \in DOMAIN g_results
                 /\ json_files[s] = JsonFile(Sorted(ParseStyles(g_results[s])))
        /\ tmp_files = { }

====
